---- MODULE Spec2Model ----
(***************************************************************************)
(* The input helpers of utils/inputs.py (channel_input, role_input,        *)
(* member_input, integer_input, time_input, string_input, image_input) as  *)
(* one state machine: a helper is called with its arguments, suspends in   *)
(* ctx.bot.wait_for("message", check, timeout), and ends either by a       *)
(* dispatched message that passes the check or by the timeout.             *)
(*                                                                         *)
(* Message contents are sequences of one-character strings, so that        *)
(* len(), int(), str(), strip() and lower() are computed, not assumed.     *)
(* A Python Optional[int] is <<>> (None) or <<n>>.                         *)
(*                                                                         *)
(* On top of the helpers, the buttons of the tourney editor                *)
(* (views/tourney/_buttons.py): a button's callback calls one helper and   *)
(* writes the value it returns into a field of the view's record.  A value *)
(* stored in the record is a pair <<type, payload>> of its Python type and *)
(* what it holds.                                                          *)
(***************************************************************************)
EXTENDS Integers, Sequences, FiniteSets, TLC

VARIABLES
    helper,      \* the helper that was called
    args,        \* its keyword arguments
    ctx,         \* the invocation context (author, channel, guild facts)
    phase,       \* "waiting" in wait_for, or "done"
    clock,       \* ticks the call has spent in wait_for
    seen,        \* number of messages the call's predicate was run on
    unheard,     \* number of messages dispatched after the call ended
    last,        \* the last message the call's predicate was run on
    resolvedBy,  \* the message wait_for returned (NoMsg if none)
    effects,     \* the outside calls the helper made, with their answers
    outcome,     \* how the call ended
    button,      \* the button whose callback made the call ("" for a bare call)
    record,      \* self.view.record, the tourney being edited
    refreshed,   \* whether the callback reached self.view.refresh_view()
    rival        \* a second callback (SetTourneyname) pending on the same view

callvars == <<helper, args, ctx, phase, clock, seen, unheard, last, resolvedBy, effects, outcome>>
viewvars == <<button, record, refreshed, rival>>
vars == <<helper, args, ctx, phase, clock, seen, unheard, last, resolvedBy, effects, outcome,
          button, record, refreshed, rival>>

----------------------------------------------------------------------------
(* Bounds of the model *)

\* the timeout of wait_for, in clock ticks
TimeoutTicks == 2
\* how many message events are dispatched in one behaviour
MaxMsgs == 2

----------------------------------------------------------------------------
(* Python values *)

None == <<>>
Some(n) == <<n>>
Val(x) == x[1]

\* truth value of an Optional[int]: None and 0 are falsy
truthy(x) == x # None /\ Val(x) # 0
any(limits) == truthy(limits[1]) \/ truthy(limits[2])
all(limits) == truthy(limits[1]) /\ truthy(limits[2])

Digits == <<"0", "1", "2", "3", "4", "5", "6", "7", "8", "9">>
IsDigit(c) == \E i \in 1..10 : Digits[i] = c
DigitVal(c) == (CHOOSE i \in 1..10 : Digits[i] = c) - 1

\* str.strip() on the blank character
RECURSIVE lstrip(_)
lstrip(s) == IF s # <<>> /\ Head(s) = " " THEN lstrip(Tail(s)) ELSE s
RECURSIVE rstrip(_)
rstrip(s) == IF s # <<>> /\ s[Len(s)] = " " THEN rstrip(SubSeq(s, 1, Len(s) - 1)) ELSE s
strip(s) == rstrip(lstrip(s))

\* str.lower() on the letters the model's contents use
lower_char(c) ==
    CASE c = "N" -> "n" [] c = "O" -> "o" [] c = "E" -> "e" [] OTHER -> c
lower(s) == [i \in 1..Len(s) |-> lower_char(s[i])]

\* int(str): blanks around, an optional sign, digits with single underscores
\* between them; anything else raises ValueError
int_body(s) ==
    LET t == strip(s)
    IN IF t # <<>> /\ Head(t) \in {"+", "-"} THEN Tail(t) ELSE t
int_negative(s) == LET t == strip(s) IN t # <<>> /\ Head(t) = "-"
raises_ValueError(s) ==
    LET b == int_body(s)
    IN \/ b = <<>>
       \/ \E i \in 1..Len(b) :
             /\ ~IsDigit(b[i])
             /\ ~(/\ b[i] = "_"
                  /\ i > 1 /\ i < Len(b)
                  /\ IsDigit(b[i-1]) /\ IsDigit(b[i+1]))
RECURSIVE digits_value(_, _)
digits_value(b, acc) ==
    IF b = <<>> THEN acc
    ELSE IF Head(b) = "_" THEN digits_value(Tail(b), acc)
    ELSE digits_value(Tail(b), 10 * acc + DigitVal(Head(b)))
int(s) ==
    LET v == digits_value(int_body(s), 0)
    IN IF int_negative(s) THEN 0 - v ELSE v

\* str(int)
RECURSIVE nat_str(_)
nat_str(n) ==
    IF n < 10 THEN <<Digits[n + 1]>>
    ELSE nat_str(n \div 10) \o <<Digits[(n % 10) + 1]>>
str(n) == IF n < 0 THEN <<"-">> \o nat_str(0 - n) ELSE nat_str(n)

----------------------------------------------------------------------------
(* The world around one call *)

Authors == {"requester", "other"}
Channels == {"here", "elsewhere"}

\* Role positions in the guild; the bot's top role sits at BotTop.  Roles are
\* ordered by position (role > other): two roles at one position are taken to
\* be the same rank.
BotTop == 2
Positions == 1..(BotTop + 1)

\* A role mention <<"@", managed, position, permission>> names the guild's role
\* with those attributes; RoleConverter looks it up.  The guild has a role for
\* every position with no permission and with administrator, managed or not,
\* and a plain role at position 1 for each other permission.
RolePermissions ==
    {"manage_channels", "manage_roles", "kick_members", "ban_members", "send_messages"}
RoleContents ==
    {<<"@", mg, Digits[p + 1], pm>> : mg \in {"managed", "plain"}, p \in Positions,
                                       pm \in {"", "administrator"}}
    \cup {<<"@", "plain", "1", pm>> : pm \in RolePermissions}
RoleOf(content) ==
    [id |-> content,
     managed |-> content[2] = "managed",
     position |-> DigitVal(content[3]),
     permissions |-> IF content[4] = "" THEN {} ELSE {content[4]}]

\* A channel mention <<"#", c1, ..>> names the channel in which the bot lacks
\* exactly the capabilities c1, ..; TextChannelConverter looks it up.
BasePerms == {"read_messages", "send_messages", "embed_links"}
StrictPerms ==
    {"manage_channels", "add_reactions", "use_external_emojis", "manage_permissions",
     "manage_messages"}
AllPerms == BasePerms \cup StrictPerms
ChannelContents ==
    {<<"#">>} \cup {<<"#", c>> : c \in AllPerms}
    \cup {<<"#", "send_messages", "manage_messages">>,
          <<"#", "add_reactions", "manage_messages">>}
permissions_for(content) ==
    AllPerms \ {content[i] : i \in 2..Len(content)}

\* text that names no channel, role or member
Garbage == <<"x">>

IntContents ==
    {<<>>, <<"0">>, <<"5">>, <<"1", "0">>, <<"1", "1">>, <<"5", "0">>,
     <<"-", "5">>, <<" ", "7">>, <<"1", "_", "0">>, <<"1", "0", "0">>,
     <<"1", "5", "0", "0", "0">>, <<"2", "0", "0", "0", "0">>,
     <<"1", "5", "0", "0", "0", "0">>, <<"1", "a">>}

StringContents ==
    {<<>>, <<"a">>, <<"n", "o", "n", "e">>, <<"5">>, <<"c", "a", "n", "c", "e", "l">>}

MemberContents == {<<"@", "member">>, Garbage}

\* "none" in several spellings, a URL, and text that is no URL
ImageContents ==
    {<<"n", "o", "n", "e">>, <<" ", "N", "o", "n", "E", " ">>, <<"u", "r", "l">>,
     Garbage}
\* the declared media type of the first attachment; <<>> when there is none
Attachments == {<<>>, <<"image/png">>, <<"image/jpg">>, <<"text/plain">>}
_image_formats == {"image/png", "image/jpeg", "image/jpg", "image/gif"}
\* what ctx.bot.session.get(content) does: it raises, or answers with headers
FetchAnswers ==
    {"InvalidURL", "ClientConnectorError", "no content-type", "image/png", "image/gif",
     "text/html"}

\* what message.delete() does
DeleteAnswers == {"deleted", "Forbidden", "NotFound"}

\* <<"in", h>>: dateparser reads the phrase as h hours after RELATIVE_BASE,
\* <<"ago", h>> as h hours before it; Garbage parses to None
TimeContents == {<<"in", "0">>, <<"in", "3">>, <<"ago", "3">>, Garbage}
\* the current time (hours) at the two datetime.now() calls of time_input
Nows == {<<100, 100>>, <<100, 101>>}

Helpers ==
    {"channel_input", "role_input", "member_input", "integer_input", "time_input",
     "string_input", "image_input"}

ContentsOf(h) ==
    CASE h = "integer_input" -> IntContents
      [] h = "string_input" -> StringContents
      [] h = "channel_input" -> ChannelContents \cup {Garbage}
      [] h = "role_input" -> RoleContents \cup {Garbage}
      [] h = "member_input" -> MemberContents
      [] h = "time_input" -> TimeContents
      [] h = "image_input" -> ImageContents

AttachmentsOf(h) == IF h = "image_input" THEN Attachments ELSE {<<>>}

MessagesOf(h) ==
    [author : Authors, channel : Channels, content : ContentsOf(h),
     attachments : AttachmentsOf(h)]

NoMsg == [author |-> "", channel |-> "", content |-> <<>>, attachments |-> <<>>]

----------------------------------------------------------------------------
(* Arguments and context of a call *)

\* limits=(low, high) as the callers and the signature give them
LimitPairs ==
    {<<None, None>>, <<Some(0), Some(10)>>, <<Some(1), Some(15000)>>,
     <<Some(5), Some(10)>>, <<None, Some(10)>>, <<None, Some(0)>>,
     <<Some(0), None>>, <<Some(5), None>>}

\* check=None (what every caller in _buttons.py passes) selects the default
\* predicate; member_input, time_input and image_input have no default and
\* get a predicate of the caller's ("custom")
HasDefaultCheck(h) ==
    h \in {"channel_input", "role_input", "integer_input", "string_input"}

ArgsOf(h) ==
    [check : IF HasDefaultCheck(h) THEN {"default"} ELSE {"custom"},
     limits : IF h = "integer_input" THEN LimitPairs ELSE {<<None, None>>},
     hierarchy : IF h = "role_input" THEN BOOLEAN ELSE {TRUE},
     check_perms : IF h \in {"role_input", "channel_input"} THEN BOOLEAN ELSE {TRUE},
     delete_after : BOOLEAN]

\* ctx.author, ctx.channel, whether ctx.author owns the guild, and the position
\* of ctx.author.top_role (ctx.me.top_role sits at BotTop)
CtxOf(h) ==
    [author : {"requester"}, channel : {"here"},
     is_owner : IF h = "role_input" THEN BOOLEAN ELSE {FALSE},
     author_top : IF h = "role_input" THEN {1, BotTop} ELSE {1}]

----------------------------------------------------------------------------
(* Results *)

Result(tag, value, reason) == [tag |-> tag, value |-> value, reason |-> reason]
Pending == Result("Pending", <<>>, "")
Ok(value) == Result("Ok", value, "")
\* InputError raised in the except asyncio.TimeoutError branch
Timeout(text) == Result("Timeout", <<>>, text)
\* InputError raised after wait_for returned a message
Invalid(reason) == Result("Invalid", <<>>, reason)
\* any other exception leaving the helper
Exception(name) == Result("Exception", <<>>, name)

NoEffects == [delete |-> "not_called", fetch |-> "not_called", now |-> <<>>]

\* safe_delete(message): message.delete() is called; Forbidden and NotFound
\* are caught
safe_delete(eff, e) == [eff EXCEPT !.delete = e.delete]

Done(out, eff) == [out |-> out, eff |-> eff]

----------------------------------------------------------------------------
(* The predicates handed to wait_for *)

default_check_channel_and_author(m) == m.channel = ctx.channel /\ m.author = ctx.author
default_check(m) == m.channel = ctx.channel \/ m.author = ctx.author
custom_check(m) == m.channel = ctx.channel /\ m.author = ctx.author
check(m) == IF args.check = "default" THEN default_check(m) ELSE custom_check(m)

new_check_without_length_gate(m) ==
    LET limits == args.limits
        low == limits[1]
        high == limits[2]
    IN IF ~check(m) THEN FALSE
       ELSE IF raises_ValueError(m.content) THEN FALSE
       ELSE LET digit == int(m.content)
            IN IF ~any(limits) THEN TRUE
               ELSE IF all(limits) THEN Val(low) <= digit /\ digit <= Val(high)
               ELSE IF low # None THEN Val(low) <= digit
               ELSE Val(high) <= digit
new_check(m) ==
    LET limits == args.limits
        low == limits[1]
        high == limits[2]
    IN IF ~check(m) THEN FALSE
       ELSE IF high # None /\ Len(m.content) > Len(str(Val(high))) THEN FALSE
       ELSE IF raises_ValueError(m.content) THEN FALSE
       ELSE LET digit == int(m.content)
            IN IF ~any(limits) THEN TRUE
               ELSE IF all(limits) THEN Val(low) <= digit /\ digit <= Val(high)
               ELSE IF low # None THEN Val(low) <= digit
               ELSE Val(high) <= digit

\* the predicate each helper passes to ctx.bot.wait_for
wait_check_without_new_check(m) == check(m)
wait_check(m) == IF helper = "integer_input" THEN new_check(m) ELSE check(m)

----------------------------------------------------------------------------
(* The helpers, from the message wait_for returned to the end of the call.  *)
(* e holds what the outside world answers to the calls the helper makes.    *)

Deleted(e) == IF args.delete_after THEN safe_delete(NoEffects, e) ELSE NoEffects

\* all((perms.read_messages, perms.send_messages, perms.embed_links))
has_base_perms_without_send(perms) ==
    /\ "read_messages" \in perms
    /\ "embed_links" \in perms
has_base_perms(perms) ==
    /\ "read_messages" \in perms
    /\ "send_messages" \in perms
    /\ "embed_links" \in perms

\* all((perms.manage_channels, .., perms.manage_messages))
has_strict_perms(perms) ==
    /\ "manage_channels" \in perms
    /\ "add_reactions" \in perms
    /\ "use_external_emojis" \in perms
    /\ "manage_permissions" \in perms
    /\ "manage_messages" \in perms

channel_input(m, e) ==
    IF m.content \notin ChannelContents
    THEN Done(Exception("ChannelNotFound"), NoEffects)
    ELSE LET perms == permissions_for(m.content)
         IN IF ~has_base_perms(perms)
            THEN Done(Invalid("base_perms"), NoEffects)
            ELSE IF args.check_perms /\ ~has_strict_perms(perms)
            THEN Done(Invalid("strict_perms"), NoEffects)
            ELSE Done(Ok(m.content), Deleted(e))

\* the capabilities the text of each InputError of channel_input names
perms_named_only_missing(reason, perms) ==
    IF reason = "base_perms"
    THEN {"read_messages", "send_messages", "embed_links"} \ perms
    ELSE {"add_reactions", "use_external_emojis", "manage_channels", "manage_permissions",
          "manage_messages"} \ perms
perms_named(reason, perms) ==
    IF reason = "base_perms"
    THEN {"read_messages", "send_messages", "embed_links"}
    ELSE {"add_reactions", "use_external_emojis", "manage_channels", "manage_permissions",
          "manage_messages"}

\* RoleConverter raises RoleNotFound inside the try block, whose only except
\* clause is asyncio.TimeoutError: the exception leaves the helper
role_not_found_caught == Timeout("You failed to select a role in time. Try again!")
role_not_found == Exception("RoleNotFound")

\* the hierarchy checks: the error they raise, "" when they pass
hierarchy_error_owner_exempt(role) ==
    IF ctx.is_owner THEN ""
    ELSE IF role.position > BotTop THEN "above_bot"
    ELSE IF role.position > ctx.author_top THEN "above_author"
    ELSE ""
hierarchy_error(role) ==
    IF role.position > BotTop THEN "above_bot"
    ELSE IF ~ctx.is_owner /\ role.position > ctx.author_top THEN "above_author"
    ELSE ""

\* any((_perms.administrator, .., _perms.ban_members))
dangerous_without_administrator(_perms) ==
    \/ "manage_channels" \in _perms
    \/ "manage_roles" \in _perms
    \/ "kick_members" \in _perms
    \/ "ban_members" \in _perms
dangerous(_perms) ==
    \/ "administrator" \in _perms
    \/ "manage_channels" \in _perms
    \/ "manage_roles" \in _perms
    \/ "kick_members" \in _perms
    \/ "ban_members" \in _perms

role_input(m, e) ==
    IF m.content \notin RoleContents
    THEN Done(role_not_found, NoEffects)
    ELSE LET role == RoleOf(m.content)
         IN IF role.managed
            THEN Done(Invalid("managed"), NoEffects)
            ELSE IF args.hierarchy /\ hierarchy_error(role) # ""
            THEN Done(Invalid(hierarchy_error(role)), NoEffects)
            ELSE IF args.check_perms /\ dangerous(role.permissions)
            THEN Done(Invalid("dangerous"), NoEffects)
            ELSE Done(Ok(role), Deleted(e))

member_input(m, e) ==
    IF m.content = Garbage
    THEN Done(Exception("MemberNotFound"), NoEffects)
    ELSE Done(Ok(m.content), Deleted(e))

integer_input(m, e) ==
    IF raises_ValueError(m.content)
    THEN Done(Exception("ValueError"), Deleted(e))
    ELSE Done(Ok(int(m.content)), Deleted(e))

\* dateparser.parse(content, RELATIVE_BASE=now): a time in hours, or None
parse(content, now) ==
    CASE content[1] = "in" -> Some(now + DigitVal(content[2]))
      [] content[1] = "ago" -> Some(now - DigitVal(content[2]))
      [] OTHER -> None

time_input_compares_relative_base(m, e) ==
    LET parsed == parse(m.content, e.now[1])
        eff == [Deleted(e) EXCEPT !.now = e.now]
    IN IF parsed = None
       THEN Done(Invalid("time_format"), eff)
       ELSE IF e.now[1] > Val(parsed)
       THEN Done(Ok(Val(parsed) + 24), eff)
       ELSE Done(Ok(Val(parsed)), eff)
time_input(m, e) ==
    LET parsed == parse(m.content, e.now[1])
        eff == [Deleted(e) EXCEPT !.now = e.now]
    IN IF parsed = None
       THEN Done(Invalid("time_format"), eff)
       ELSE IF e.now[2] > Val(parsed)
       THEN Done(Ok(Val(parsed) + 24), eff)
       ELSE Done(Ok(Val(parsed)), eff)

string_input(m, e) == Done(Ok(m.content), Deleted(e))

image_input_none_compared_as_typed(m, e) ==
    IF m.content = <<"n", "o", "n", "e">>
    THEN Done(Ok(None), Deleted(e))
    ELSE IF m.attachments # <<>> /\ m.attachments[1] \in _image_formats
    THEN Done(Ok(<<"proxy_url">>), Deleted(e))
    ELSE LET eff == [Deleted(e) EXCEPT !.fetch = e.fetch]
         IN CASE e.fetch = "InvalidURL" -> Done(Ok(None), eff)
              [] e.fetch = "ClientConnectorError" ->
                    Done(Exception("ClientConnectorError"), eff)
              [] e.fetch = "no content-type" -> Done(Exception("KeyError"), eff)
              [] OTHER ->
                    IF e.fetch \in _image_formats
                    THEN Done(Ok(m.content), eff)
                    ELSE Done(Ok(None), eff)
image_input(m, e) ==
    IF lower(strip(m.content)) = <<"n", "o", "n", "e">>
    THEN Done(Ok(None), Deleted(e))
    ELSE IF m.attachments # <<>> /\ m.attachments[1] \in _image_formats
    THEN Done(Ok(<<"proxy_url">>), Deleted(e))
    ELSE LET eff == [Deleted(e) EXCEPT !.fetch = e.fetch]
         IN CASE e.fetch = "InvalidURL" -> Done(Ok(None), eff)
              [] e.fetch = "ClientConnectorError" ->
                    Done(Exception("ClientConnectorError"), eff)
              [] e.fetch = "no content-type" -> Done(Exception("KeyError"), eff)
              [] OTHER ->
                    IF e.fetch \in _image_formats
                    THEN Done(Ok(m.content), eff)
                    ELSE Done(Ok(None), eff)

run(m, e) ==
    CASE helper = "channel_input" -> channel_input(m, e)
      [] helper = "role_input" -> role_input(m, e)
      [] helper = "member_input" -> member_input(m, e)
      [] helper = "integer_input" -> integer_input(m, e)
      [] helper = "time_input" -> time_input(m, e)
      [] helper = "string_input" -> string_input(m, e)
      [] helper = "image_input" -> image_input(m, e)

timeout_text ==
    CASE helper = "channel_input" -> "You failed to select a channel in time. Try again!"
      [] helper = "role_input" -> "You failed to select a role in time. Try again!"
      [] helper = "member_input" -> "You failed to mention a member in time. Try again!"
      [] helper = "integer_input" -> "You failed to select a number in time. Try again!"
      [] helper = "time_input" -> "Timeout, You have't responsed in time. Try again!"
      [] helper = "string_input" -> "Took too long. Good Bye."
      [] helper = "image_input" -> "Took too long. Good Bye."

\* the answers the world can give while the helper handles m
FetchOf(m) ==
    IF helper # "image_input" THEN {"InvalidURL"}
    ELSE IF m.content = Garbage THEN {"InvalidURL"}
    ELSE FetchAnswers \ {"InvalidURL"}
EnvOf(m) ==
    [delete : IF args.delete_after THEN DeleteAnswers ELSE {"deleted"},
     fetch : FetchOf(m),
     now : IF helper = "time_input" THEN Nows ELSE {<<100, 100>>}]

----------------------------------------------------------------------------
(* The record of the view *)

Fields ==
    {"name", "registration_channel_id", "confirm_channel_id", "role_id",
     "required_mentions", "ping_role_id", "total_slots", "open_role_id",
     "success_message"}
\* the value a field has before any callback wrote it
Initial == <<"initial">>
InitialRecord == [f \in Fields |-> Initial]

\* Python values as the record holds them
PyStr(s) == <<"str", s>>
PyInt(n) == <<"int", n>>
PyNone == <<"NoneType">>
\* channel.id, role.id: the id of the object the converter returned
Id(content) == <<"id", content>>
\* a discord.Role object
PyRole(role) == <<"Role", role.id>>

\* bare helper calls have no view
NoView ==
    /\ button = ""
    /\ record = InitialRecord
    /\ refreshed = FALSE
    /\ rival = "idle"

----------------------------------------------------------------------------
(* The state machine *)

Init ==
    /\ NoView
    /\ helper \in Helpers
    /\ args \in ArgsOf(helper)
    /\ ctx \in CtxOf(helper)
    /\ phase = "waiting"
    /\ clock = 0
    /\ seen = 0
    /\ unheard = 0
    /\ last = NoMsg
    /\ resolvedBy = NoMsg
    /\ effects = NoEffects
    /\ outcome = Pending

\* The bot dispatches a message event while the call waits: the predicate
\* given to wait_for is run on it, and the first message that passes is
\* returned by wait_for, after which the helper runs to its end.
Dispatch(m) ==
    /\ phase = "waiting"
    /\ seen < MaxMsgs
    /\ seen' = seen + 1
    /\ last' = m
    /\ IF wait_check(m)
       THEN \E e \in EnvOf(m) :
               LET r == run(m, e)
               IN /\ phase' = "done"
                  /\ resolvedBy' = m
                  /\ outcome' = r.out
                  /\ effects' = r.eff
       ELSE UNCHANGED <<phase, resolvedBy, outcome, effects>>
    /\ UNCHANGED <<helper, args, ctx, clock, unheard>>

\* A message event after the call ended: wait_for has removed the call's
\* listener, so no code of the call runs, whatever the message is.
Unheard ==
    /\ phase = "done"
    /\ seen + unheard < MaxMsgs
    /\ unheard' = unheard + 1
    /\ UNCHANGED <<helper, args, ctx, phase, clock, seen, last, resolvedBy, effects, outcome>>

\* time passes while the call waits
Tick ==
    /\ phase = "waiting"
    /\ clock < TimeoutTicks
    /\ clock' = clock + 1
    /\ UNCHANGED <<helper, args, ctx, phase, seen, unheard, last, resolvedBy, effects, outcome>>

\* wait_for raises asyncio.TimeoutError
Expire ==
    /\ phase = "waiting"
    /\ clock = TimeoutTicks
    /\ phase' = "done"
    /\ outcome' = Timeout(timeout_text)
    /\ UNCHANGED <<helper, args, ctx, clock, seen, unheard, last, resolvedBy, effects>>

Next ==
    \/ \E m \in MessagesOf(helper) : Dispatch(m) /\ UNCHANGED viewvars
    \/ Unheard /\ UNCHANGED viewvars
    \/ Tick /\ UNCHANGED viewvars
    \/ Expire /\ UNCHANGED viewvars

Spec == Init /\ [][Next]_vars

\* the event loop's clock always advances and a due timeout is always raised
FairSpec ==
    /\ Spec
    /\ WF_vars(Tick /\ UNCHANGED viewvars)
    /\ WF_vars(Expire /\ UNCHANGED viewvars)

----------------------------------------------------------------------------
(* The buttons of the tourney editor *)

Buttons ==
    {"SetTourneyname", "RegChannel", "ConfirmChannel", "SetRole", "SetMentions",
     "SetPingRole", "SetSlots", "OpenRole", "SuccessMessage"}

\* the helper each callback awaits
HelperOf(b) ==
    CASE b \in {"SetTourneyname", "SuccessMessage"} -> "string_input"
      [] b \in {"RegChannel", "ConfirmChannel"} -> "channel_input"
      [] b \in {"SetRole", "SetPingRole", "OpenRole"} -> "role_input"
      [] b \in {"SetMentions", "SetSlots"} -> "integer_input"

\* its keyword arguments: delete_after=True, limits for the two integer
\* buttons, the defaults of the signature for the rest
ButtonArgs(b) ==
    [check |-> "default",
     limits |-> CASE b = "SetMentions" -> <<Some(0), Some(10)>>
                  [] b = "SetSlots" -> <<Some(1), Some(15000)>>
                  [] OTHER -> <<None, None>>,
     hierarchy |-> TRUE,
     check_perms |-> TRUE,
     delete_after |-> TRUE]

\* truncate_string(value, max_length): a string within the length is kept
truncate_string(value, max_length) ==
    IF Len(value) <= max_length THEN value ELSE SubSeq(value, 1, max_length)

\* how a callback ends: with the record as it leaves it, and whether it
\* refreshed the view
Written(rec, field, value) == [record |-> [rec EXCEPT ![field] = value], refreshed |-> TRUE]
Aborted(rec) == [record |-> rec, refreshed |-> FALSE]

SetTourneyname(name, rec) == Written(rec, "name", PyStr(truncate_string(name, 30)))

\* exists: what Tourney.filter(registration_channel_id=channel.id).exists()
\* answers
RegChannel(channel, exists, rec) ==
    IF exists THEN Aborted(rec)
    ELSE Written(rec, "registration_channel_id", Id(channel))

ConfirmChannel(channel, rec) == Written(rec, "confirm_channel_id", Id(channel))

SetRole(role, rec) == Written(rec, "role_id", Id(role.id))

SetMentions(mentions, rec) == Written(rec, "required_mentions", PyInt(mentions))

SetPingRole(role, rec) == Written(rec, "ping_role_id", PyRole(role))

SetSlots(slots, rec) == Written(rec, "total_slots", PyInt(slots))

OpenRole(role, rec) == Written(rec, "open_role_id", PyRole(role))

SuccessMessage(text, rec) ==
    LET msg == truncate_string(text, 500)
    IN IF strip(lower(msg)) = <<"n", "o", "n", "e">>
       THEN Written(rec, "success_message", PyNone)
       ELSE IF strip(lower(msg)) = <<"c", "a", "n", "c", "e", "l">>
       THEN Aborted(rec)
       ELSE Written(rec, "success_message", PyStr(msg))

\* The callback of button b from the end of its helper call on: an exception
\* of the helper leaves the callback at the await; a returned value is
\* written and the view refreshed.
callback_catching_the_error(b, out, exists, rec) ==
    IF out.tag # "Ok" THEN [record |-> rec, refreshed |-> TRUE]
    ELSE CASE b = "SetTourneyname" -> SetTourneyname(out.value, rec)
           [] b = "RegChannel" -> RegChannel(out.value, exists, rec)
           [] b = "ConfirmChannel" -> ConfirmChannel(out.value, rec)
           [] b = "SetRole" -> SetRole(out.value, rec)
           [] b = "SetMentions" -> SetMentions(out.value, rec)
           [] b = "SetPingRole" -> SetPingRole(out.value, rec)
           [] b = "SetSlots" -> SetSlots(out.value, rec)
           [] b = "OpenRole" -> OpenRole(out.value, rec)
           [] b = "SuccessMessage" -> SuccessMessage(out.value, rec)
callback(b, out, exists, rec) ==
    IF out.tag # "Ok" THEN Aborted(rec)
    ELSE CASE b = "SetTourneyname" -> SetTourneyname(out.value, rec)
           [] b = "RegChannel" -> RegChannel(out.value, exists, rec)
           [] b = "ConfirmChannel" -> ConfirmChannel(out.value, rec)
           [] b = "SetRole" -> SetRole(out.value, rec)
           [] b = "SetMentions" -> SetMentions(out.value, rec)
           [] b = "SetPingRole" -> SetPingRole(out.value, rec)
           [] b = "SetSlots" -> SetSlots(out.value, rec)
           [] b = "OpenRole" -> OpenRole(out.value, rec)
           [] b = "SuccessMessage" -> SuccessMessage(out.value, rec)

ExistsAnswers(b) == IF b = "RegChannel" THEN BOOLEAN ELSE {FALSE}

\* The rival is a SetTourneyname callback waiting in string_input with the
\* same ctx: its predicate is the default one, and it returns the content of
\* the message that passes (safe_delete swallows the NotFound of a message
\* the other callback deleted).
rival_resolved(m) == rival = "waiting" /\ default_check(m)
AfterRival(m, rec) ==
    IF rival_resolved(m) THEN SetTourneyname(m.content, rec).record ELSE rec

\* the view is shown, no callback runs
ViewInit ==
    /\ button \in Buttons
    /\ helper = HelperOf(button)
    /\ args = ButtonArgs(button)
    /\ ctx \in CtxOf(helper)
    /\ phase = "idle"
    /\ clock = 0
    /\ seen = 0
    /\ unheard = 0
    /\ last = NoMsg
    /\ resolvedBy = NoMsg
    /\ effects = NoEffects
    /\ outcome = Pending
    /\ record = InitialRecord
    /\ refreshed = FALSE
    /\ rival = "idle"

\* the button is pressed: its callback defers, sends the prompt and waits in
\* the helper
Click ==
    /\ phase \in {"idle", "done"}
    /\ phase' = "waiting"
    /\ clock' = 0
    /\ seen' = 0
    /\ unheard' = 0
    /\ last' = NoMsg
    /\ resolvedBy' = NoMsg
    /\ effects' = NoEffects
    /\ outcome' = Pending
    /\ refreshed' = FALSE
    /\ UNCHANGED <<helper, args, ctx, button, record, rival>>

\* A message event while the callback waits in its helper: every pending
\* wait_for listener runs its predicate on the message, and each callback
\* whose helper returns goes on to its end.
ViewDispatch(m) ==
    /\ Dispatch(m)
    /\ \E exists \in ExistsAnswers(button) :
          LET c == IF phase' = "done"
                   THEN callback(button, outcome', exists, record)
                   ELSE Aborted(record)
          IN /\ record' = AfterRival(m, c.record)
             /\ refreshed' = c.refreshed
    /\ rival' = IF rival_resolved(m) THEN "done" ELSE rival
    /\ UNCHANGED button

ViewNext ==
    \/ Click
    \/ \E m \in MessagesOf(helper) : ViewDispatch(m)
    \/ Unheard /\ UNCHANGED viewvars
    \/ Tick /\ UNCHANGED viewvars
    \/ Expire /\ UNCHANGED viewvars

\* one button of the editor, pressed any number of times
ViewSpec == ViewInit /\ [][ViewNext]_vars

\* SetTourneyname is pressed while the callback of another button waits
RivalClick ==
    /\ phase = "waiting"
    /\ rival = "idle"
    /\ rival' = "waiting"
    /\ UNCHANGED <<callvars, button, record, refreshed>>

\* the rival's wait_for raises asyncio.TimeoutError
RivalExpire ==
    /\ rival = "waiting"
    /\ rival' = "timeout"
    /\ UNCHANGED <<callvars, button, record, refreshed>>

\* a message event after the first callback ended, which the rival takes
RivalDispatch(m) ==
    /\ Unheard
    /\ rival_resolved(m)
    /\ rival' = "done"
    /\ record' = AfterRival(m, record)
    /\ UNCHANGED <<button, refreshed>>

ConcurrentButtons == {"SetSlots", "SuccessMessage"}
ConcurrentInit == ViewInit /\ button \in ConcurrentButtons
ConcurrentNext ==
    \/ ViewNext
    \/ RivalClick
    \/ RivalExpire
    \/ \E m \in MessagesOf(helper) : RivalDispatch(m)

\* two callbacks of one view pending at the same time
ConcurrentSpec == ConcurrentInit /\ [][ConcurrentNext]_vars

----------------------------------------------------------------------------
(* Properties *)

Low == args.limits[1]
High == args.limits[2]
Resolved == resolvedBy # NoMsg
\* a message was seen by the call's predicate and the call still waits
Skipped == phase = "waiting" /\ last # NoMsg
\* content that int() reads and that is no longer than str(high)
IntegerWithinLength(content) ==
    /\ ~raises_ValueError(content)
    /\ High # None => Len(content) <= Len(str(Val(High)))
\* the bounds as the limits state them
WithinLimits(v) ==
    /\ Low # None => Val(Low) <= v
    /\ High # None => v <= Val(High)

\* C1: integer_input with both limits given, low <= high, only returns values v
\* with low <= v <= high.
C1_BothLimits ==
    (/\ helper = "integer_input"
     /\ Low # None /\ High # None
     /\ Val(Low) <= Val(High)
     /\ outcome.tag = "Ok")
    => (Val(Low) <= outcome.value /\ outcome.value <= Val(High))

\* C2: integer_input with only the upper limit given only returns values
\* v <= high, and no routed integer content v <= high that passes the length
\* gate is skipped.
C2_UpperLimitOnly ==
    (/\ helper = "integer_input"
     /\ Low = None /\ High # None)
    => /\ outcome.tag = "Ok" => outcome.value <= Val(High)
       /\ ~(/\ Skipped
            /\ check(last)
            /\ IntegerWithinLength(last.content)
            /\ int(last.content) <= Val(High))

\* C3: integer_input with only the lower limit given only returns values
\* v >= low (low = 0 included), and skips no routed integer content v >= low,
\* however long it is.
C3_LowerLimitOnly ==
    (/\ helper = "integer_input"
     /\ Low # None /\ High = None)
    => /\ outcome.tag = "Ok" => outcome.value >= Val(Low)
       /\ ~(/\ Skipped
            /\ check(last)
            /\ ~raises_ValueError(last.content)
            /\ int(last.content) >= Val(Low))

\* C4: integer_input ends as a returned integer or as the timeout error, and
\* the message that ended the wait is an integer, not too long and within the
\* limits; any other routed message leaves the call waiting.
C4_OnlyAcceptableEndsWait ==
    helper = "integer_input"
    => /\ phase = "done" => outcome.tag \in {"Ok", "Timeout"}
       /\ Resolved =>
             /\ check(resolvedBy)
             /\ IntegerWithinLength(resolvedBy.content)
             /\ WithinLimits(int(resolvedBy.content))

\* the routing predicate and the acceptance predicate of each helper: only
\* integer_input accepts by content, the others take any routed message
Qualifies(m) ==
    /\ check(m)
    /\ helper = "integer_input" => new_check(m)

C7_FetchErrorsSwallowed ==
    (helper = "image_input" /\ phase = "done")
    => /\ outcome.tag \in {"Ok", "Invalid", "Timeout"}
       /\ effects.fetch \in {"InvalidURL", "ClientConnectorError", "no content-type"}
             => outcome = Ok(None)

\* the role the resolving message names
ResolvedRole == RoleOf(resolvedBy.content)
RoleResolved ==
    helper = "role_input" /\ Resolved /\ resolvedBy.content \in RoleContents

\* C8 (as stated): with hierarchy and check_perms on, every resolved role with
\* the administrator permission ends in Invalid "dangerous permissions",
\* whatever its position.
C8_AdminAlwaysDangerous ==
    (/\ RoleResolved
     /\ args.hierarchy /\ args.check_perms
     /\ "administrator" \in ResolvedRole.permissions)
    => outcome = Invalid("dangerous")

\* C8 (amended): with hierarchy and check_perms on, every resolved role with
\* the administrator permission ends in Invalid; the error is "dangerous
\* permissions" exactly when the role is not managed, is not above the bot's
\* top role and, unless the requester owns the guild, is not above the
\* requester's top role (those checks come first).
C8_AdminAlwaysInvalid ==
    (/\ RoleResolved
     /\ args.hierarchy /\ args.check_perms
     /\ "administrator" \in ResolvedRole.permissions)
    => /\ outcome.tag = "Invalid"
       /\ outcome.reason = "dangerous" <=>
             /\ ~ResolvedRole.managed
             /\ ResolvedRole.position <= BotTop
             /\ ctx.is_owner \/ ResolvedRole.position <= ctx.author_top

C8_Witness ==
    /\ RoleResolved
    /\ args.hierarchy /\ args.check_perms
    /\ "administrator" \in ResolvedRole.permissions
    /\ ResolvedRole.position = BotTop
    /\ outcome = Invalid("dangerous")

\* C9: with hierarchy on, role_input never returns a role above the bot's top
\* role: such a role ends in Invalid, the guild owner's request included.
C9_AboveBotRejected ==
    (/\ RoleResolved
     /\ args.hierarchy
     /\ ResolvedRole.position > BotTop)
    => outcome.tag = "Invalid"

C9_Witness ==
    /\ RoleResolved
    /\ args.hierarchy
    /\ ctx.is_owner
    /\ ~ResolvedRole.managed
    /\ ResolvedRole.position > BotTop
    /\ outcome = Invalid("above_bot")

\* the capabilities of the bot in the channel the resolving message names
ResolvedPerms == permissions_for(resolvedBy.content)
ChannelResolved ==
    helper = "channel_input" /\ Resolved /\ resolvedBy.content \in ChannelContents

\* C10: channel_input on a resolvable channel ends in Invalid when the bot
\* cannot send there; when the bot has read, send and embed but lacks a
\* strict-mode capability, the channel is returned with check_perms off and
\* the call ends in Invalid with check_perms on.
C10_ChannelCapabilities ==
    ChannelResolved
    => /\ "send_messages" \notin ResolvedPerms => outcome.tag = "Invalid"
       /\ (BasePerms \subseteq ResolvedPerms /\ ~(StrictPerms \subseteq ResolvedPerms))
             => IF args.check_perms
                THEN outcome.tag = "Invalid"
                ELSE outcome = Ok(resolvedBy.content)

C10_Witness ==
    /\ ChannelResolved
    /\ ~args.check_perms
    /\ BasePerms \subseteq ResolvedPerms
    /\ "manage_messages" \notin ResolvedPerms
    /\ outcome = Ok(resolvedBy.content)

\* the capabilities channel_input requires of the bot, and those it lacks in
\* the channel the resolving message names
RequiredPerms == IF args.check_perms THEN AllPerms ELSE BasePerms
MissingPerms == RequiredPerms \ ResolvedPerms
NamedPerms == perms_named(outcome.reason, ResolvedPerms)

\* C11 (as stated): when channel_input rejects a channel for missing
\* capabilities, the capabilities the Invalid error names are exactly the
\* required capabilities the bot lacks in that channel.
C11_NamesExactlyMissing ==
    (ChannelResolved /\ outcome.tag = "Invalid") => NamedPerms = MissingPerms

\* C11 (amended): channel_input rejects a resolvable channel exactly when the
\* bot lacks a required capability, and the Invalid error names the whole
\* group whose check failed: read, send and embed when one of them is lacking,
\* else the five strict capabilities.  A lacking capability of that group is
\* always among the named ones.
C11_NamesFailedGroup ==
    ChannelResolved
    => /\ outcome.tag = "Invalid" <=> MissingPerms # {}
       /\ outcome.tag = "Invalid" =>
             /\ NamedPerms = IF BasePerms \subseteq ResolvedPerms
                             THEN StrictPerms ELSE BasePerms
             /\ NamedPerms \cap MissingPerms # {}

\* the bot lacks only manage_messages and all five strict ones are named
C11_Witness ==
    /\ ChannelResolved
    /\ outcome.tag = "Invalid"
    /\ MissingPerms = {"manage_messages"}
    /\ NamedPerms = StrictPerms

\* the timestamp dateparser made of the resolving message, and the current
\* time when time_input compares it
ParsedTime == parse(resolvedBy.content, effects.now[1])
NowCompared == effects.now[2]
TimeParsed == helper = "time_input" /\ Resolved /\ ParsedTime # None

\* C12: time_input on parseable content returns the parsed timestamp p plus 24
\* hours exactly when p is earlier than the current time, p itself when p is
\* later, and never anything else.
C12_PastShiftedByADay ==
    TimeParsed
    => /\ outcome.tag = "Ok"
       /\ outcome.value \in {Val(ParsedTime), Val(ParsedTime) + 24}
       /\ outcome.value = Val(ParsedTime) + 24 <=> Val(ParsedTime) < NowCompared
       /\ Val(ParsedTime) > NowCompared => outcome.value = Val(ParsedTime)

\* "in 0 hours" parses to the time of parsing, which is past when compared
C12_Witness ==
    /\ TimeParsed
    /\ resolvedBy.content = <<"in", "0">>
    /\ Val(ParsedTime) < NowCompared
    /\ outcome = Ok(Val(ParsedTime) + 24)

\* what the helper would have delivered had message.delete() succeeded, the
\* other answers of the world being the same
OutcomeHadDeleteSucceeded ==
    run(resolvedBy,
        [delete |-> "deleted",
         fetch |-> IF effects.fetch = "not_called" THEN "InvalidURL" ELSE effects.fetch,
         now |-> IF effects.now = <<>> THEN <<100, 100>> ELSE effects.now]).out

\* C13: with delete_after set, a call that a message resolved, ending in a
\* value or in Invalid, has called delete on that message, and a delete that
\* failed with NotFound or Forbidden leaves the outcome what it would have been.
C13_DeletesOnValueAndInvalid ==
    (args.delete_after /\ Resolved /\ outcome.tag \in {"Ok", "Invalid"})
    => /\ effects.delete # "not_called"
       /\ effects.delete \in {"Forbidden", "NotFound"}
             => outcome = OutcomeHadDeleteSucceeded

\* C14: string_input is never resolved by a routed message whose content is
\* empty, and never returns the empty string.
C14_NeverEmptyString ==
    helper = "string_input"
    => /\ Resolved => resolvedBy.content # <<>>
       /\ outcome.tag = "Ok" => outcome.value # <<>>

\* the resolving message's content is "none" once trimmed and lower-cased
SaysNone == lower(strip(resolvedBy.content)) = <<"n", "o", "n", "e">>

\* C15: image_input resolved by a message that says "none", in any casing and
\* with any blanks around, returns None without fetching anything, whatever
\* the message has attached.
C15_NoneMeansNoImage ==
    (helper = "image_input" /\ Resolved /\ SaysNone)
    => /\ outcome = Ok(None)
       /\ effects.fetch = "not_called"

\* " NonE " with an image attached
C15_Witness ==
    /\ helper = "image_input" /\ Resolved
    /\ resolvedBy.content = <<" ", "N", "o", "n", "E", " ">>
    /\ resolvedBy.attachments = <<"image/png">>
    /\ outcome = Ok(None)

\* the message comes from the request's channel or from the requester
Routed(m) == m.channel = ctx.channel \/ m.author = ctx.author

\* C16: under the default predicate a message qualifies exactly when it comes
\* from the request's channel or from the requester: the resolving message
\* is routed, and a routed message is passed over only by integer_input,
\* which also looks at the content.
C16_ChannelOrAuthor ==
    args.check = "default"
    => /\ Resolved => Routed(resolvedBy)
       /\ (Skipped /\ Routed(last)) => helper = "integer_input"

\* another author's message in the request's channel resolves the call
C16_Witness ==
    /\ args.check = "default"
    /\ Resolved
    /\ resolvedBy.author = "other"
    /\ resolvedBy.channel = ctx.channel

\* C17: integer_input with an upper limit is never resolved by content longer
\* than str(high); the call such content leaves waiting ends, if no message
\* resolves it, in the timeout error only.
C17_TooLongNeverResolves ==
    (helper = "integer_input" /\ High # None)
    => /\ Resolved => Len(resolvedBy.content) <= Len(str(Val(High)))
       /\ (phase = "done" /\ ~Resolved) => outcome.tag = "Timeout"

\* "1_0" is the integer 10, within (0, 10), and three characters long
C17_Witness ==
    /\ helper = "integer_input"
    /\ args.limits = <<Some(0), Some(10)>>
    /\ last.content = <<"1", "_", "0">>
    /\ check(last)
    /\ outcome.tag = "Timeout"

\* C18: whatever SetMentions callbacks and messages came before, the
\* required_mentions the handler wrote is an integer in 0..10.
C18_MentionsWithinTen ==
    button = "SetMentions"
    => record.required_mentions \in {Initial} \cup {PyInt(n) : n \in 0..10}

\* the callback's helper call ends in this step
HelperEnds == phase = "waiting" /\ phase' = "done"

\* C19: the callback of an input-driven button writes the record and refreshes
\* the view only in the step in which its helper returned a value; a helper
\* that ends in the timeout error or in Invalid leaves every field as it was
\* and the view unrefreshed.
C19_WritesOnlyReturnedValue ==
    /\ [][(record' # record \/ (refreshed' /\ ~refreshed))
            => (HelperEnds /\ outcome'.tag = "Ok")]_vars
    /\ [][(HelperEnds /\ outcome'.tag \in {"Timeout", "Invalid"})
            => (record' = record /\ ~refreshed')]_vars
    /\ [](outcome.tag \in {"Timeout", "Invalid"} => ~refreshed)

\* a second press of the button ended in Invalid and left what the first
\* press wrote
C19_Witness ==
    /\ button \in Buttons
    /\ outcome.tag = "Invalid"
    /\ record # InitialRecord
    /\ ~refreshed

\* the fields a step changes
FieldsChanged == {f \in Fields : record'[f] # record[f]}

\* C20: with two callbacks of one view pending under the default predicate,
\* one message resolves at most one of them and changes at most one field of
\* the record.
C20_OneMessageOneRequest ==
    [][/\ ~(HelperEnds /\ resolvedBy' # NoMsg /\ rival = "waiting" /\ rival' = "done")
       /\ Cardinality(FieldsChanged) <= 1]_vars

\* the fields of the record that are named as identifiers
IdFields ==
    {"registration_channel_id", "confirm_channel_id", "role_id", "ping_role_id",
     "open_role_id"}
\* the field holds what it held at first, or an id
HoldsId(f) == record[f] = Initial \/ record[f][1] = "id"

\* C21: whatever callbacks ran, every identifier field of the record holds
\* its initial value or the id of the channel or role the helper returned,
\* never the channel or role object.
C21_IdFieldsHoldIds ==
    \A f \in IdFields : HoldsId(f)

====
